---- MODULE Spec2Model ----
(***************************************************************************)
(* little_exif: the JPEG segment engine (src/src/jpg.rs) and the TIFF/EXIF *)
(* directory codec with the Metadata facade (src/src/metadata.rs).         *)
(*                                                                         *)
(* Bytes are integers 0..255, buffers are sequences of bytes.  A Rust      *)
(* index i (0-based) is the TLA+ index i+1.  An operation that can panic   *)
(* or spin forever returns a record whose status says so.                  *)
(***************************************************************************)
EXTENDS Integers, Sequences, FiniteSets, TLC

VARIABLES
    file_buffer,      \* jpg.rs: the in-memory image of the file
    jpg_input,        \* the buffer the run started from
    jpg_before,       \* the buffer as it was before the last operation
    jpg_hist,         \* the operations run on file_buffer so far, with how each ended
    jpg_status,       \* how the last operation ended
    jpg_out,          \* the bytes the last read_metadata returned
    jpg_arg,          \* the payload handed to the last write_metadata
    overflow_checks,  \* the build: TRUE = arithmetic overflow panics (debug)
    ecs_data,         \* skip_ecs: the bytes under the cursor
    ecs_result,       \* skip_ecs: how it ended and where the cursor is
    data,             \* Metadata.data: the tag list
    endian,           \* Metadata.endian
    set_hist,         \* the tags handed to set_tag so far, in call order
    got,              \* the last get_tag_by_hex call: id asked for and result
    meta_pc,          \* "edit", then "encoded", then "decoded"; "wire" before a decode
    payload,          \* what encode_metadata_general returned
    wire,             \* the bytes handed to decode_metadata_general
    wire_desc,        \* how wire was put together (input enumeration)
    decoded           \* what decode_metadata_general returned

jpg_vars == <<file_buffer, jpg_input, jpg_before, jpg_hist, jpg_status, jpg_out, jpg_arg>>
ecs_vars == <<ecs_data, ecs_result>>
meta_vars == <<data, endian, set_hist, got, meta_pc, payload, wire, wire_desc, decoded>>
vars == <<jpg_vars, overflow_checks, ecs_vars, meta_vars>>

(***************************************************************************)
(* Bounds of the model.                                                    *)
(***************************************************************************)
MaxSegs == 3          \* segments between SOI and the tail of a buffer
MaxPayloadLen == 1    \* payload bytes of one generated segment
MaxOps == 2           \* operations run on one buffer
MaxEcsLen == 3        \* bytes of entropy-coded data handed to skip_ecs

(***************************************************************************)
(* Sequence helpers.                                                       *)
(***************************************************************************)
Min(a, b) == IF a <= b THEN a ELSE b

\* Rust slice v[from..to] with 0-based, end-exclusive indices
Slice(v, from, to) == SubSeq(v, from + 1, to)

SeqsUpTo(S, n) == UNION {[1..k -> S] : k \in 0..n}

RECURSIVE Flatten(_)
Flatten(ss) == IF ss = <<>> THEN <<>> ELSE Head(ss) \o Flatten(Tail(ss))

(***************************************************************************)
(* Byte <-> integer conversion (to_u8_vec_macro!, from_u8_vec_macro!).     *)
(***************************************************************************)
U16Bytes(x, big) ==
    IF big THEN <<(x \div 256) % 256, x % 256>>
           ELSE <<x % 256, (x \div 256) % 256>>

U16From(v, big) ==
    IF big THEN v[1] * 256 + v[2] ELSE v[2] * 256 + v[1]

\* u16 subtraction a - b: an overflow panics in a build with overflow checks
\* and wraps modulo 2^16 otherwise
SubU16(a, b, checks) ==
    IF a >= b THEN [panic |-> FALSE, val |-> a - b]
    ELSE IF checks THEN [panic |-> TRUE, val |-> 0]
    ELSE [panic |-> FALSE, val |-> a - b + 65536]

\* u16 addition
AddU16(a, b, checks) ==
    IF a + b < 65536 THEN [panic |-> FALSE, val |-> a + b]
    ELSE IF checks THEN [panic |-> TRUE, val |-> 0]
    ELSE [panic |-> FALSE, val |-> (a + b) % 65536]

\* How an operation can end.  A panic aborts the process; "diverge" is a loop
\* that never ends.
PanicStatuses == {"panic_overflow", "panic_unreachable", "panic_skip",
                  "panic_split", "panic_slice", "panic_assert", "panic_unwrap"}
IsPanic(st) == st \in PanicStatuses
\* "stack_overflow" is a recursion that never ends
Dead(st) == IsPanic(st) \/ st \in {"diverge", "stack_overflow"}

(***************************************************************************)
(* jpg.rs constants.                                                       *)
(***************************************************************************)
JPG_SIGNATURE == <<255, 216>>
JPG_MARKER_PREFIX == 255
JPG_APP1_MARKER == 65505
EXIF_HEADER == <<69, 120, 105, 102, 0, 0>>

(***************************************************************************)
(* encode_metadata_jpg                                                     *)
(***************************************************************************)
encode_metadata_jpg(exif_vec, checks) ==
    LET s1 == AddU16(2, Len(EXIF_HEADER) % 65536, checks)
        s2 == AddU16(s1.val, Len(exif_vec) % 65536, checks)
    IN  IF s1.panic \/ s2.panic
        THEN [status |-> "panic_overflow", bytes |-> <<>>]
        ELSE [status |-> "ok",
              bytes  |-> U16Bytes(JPG_APP1_MARKER, TRUE) \o U16Bytes(s2.val, TRUE)
                         \o EXIF_HEADER \o exif_vec]

(***************************************************************************)
(* check_signature: file_buffer[0..2] panics on a buffer shorter than 2.   *)
(***************************************************************************)
check_signature(buf) ==
    IF Len(buf) < 2 THEN "panic_slice"
    ELSE IF Cardinality({i \in 1..2 : buf[i] = JPG_SIGNATURE[i]}) = Len(JPG_SIGNATURE)
         THEN "ok"
         ELSE "invalid_signature"

(***************************************************************************)
(* clear_metadata.  The loop state: buf (file_buffer), it (how many items  *)
(* buffer_iterator has yielded, i.e. the 0-based index of its next item),  *)
(* seek (seek_counter), bb (byte_buffer[0]), prev                          *)
(* (previous_byte_was_marker_prefix), status.                              *)
(***************************************************************************)
ClearInit(buf) ==
    [buf |-> buf, it |-> 0, seek |-> 0, bb |-> 0, prev |-> FALSE,
     status |-> "running"]

\* The 0xe1 arm of the match, entered with byte_buffer[0] = 0xe1 already read;
\* it1 is the iterator position after that read.
ClearApp1(s, it1, checks) ==
    LET n       == Len(s.buf)
        \* (buffer_iterator.next(), buffer_iterator.next())
        both    == it1 + 2 <= n
        it2     == Min(it1 + 2, n)
        length_buffer == IF both THEN <<s.buf[it1 + 1], s.buf[it1 + 2]>> ELSE <<0, 0>>
        length  == U16From(length_buffer, TRUE)
        rem     == SubU16(length, 2, checks)
        remaining_length == rem.val
        \* buffer_iterator.nth(remaining_length - 1)
        nth_ok  == it2 + remaining_length <= n
        mid     == s.seek + remaining_length + 2 + 2
        buffer  == Slice(s.buf, mid, n)
        cutoff_index == s.seek + Len(buffer)
        new_buf == Slice(s.buf, 0, s.seek) \o buffer
        \* buffer_iterator = file_buffer.iter(); buffer_iterator.nth(seek_counter)
        new_it  == Min(s.seek + 1, Len(new_buf))
    IN  IF rem.panic                                  \* length - 2
        THEN [s EXCEPT !.status = "panic_overflow", !.bb = 225, !.it = it2]
        ELSE IF remaining_length = 0                  \* unreachable!
        THEN [s EXCEPT !.status = "panic_unreachable", !.bb = 225, !.it = it2]
        ELSE IF ~nth_ok                               \* panic!("Could not skip ...")
        THEN [s EXCEPT !.status = "panic_skip", !.bb = 225, !.it = n]
        ELSE IF mid > n                               \* split_at_mut past the end
        THEN [s EXCEPT !.status = "panic_split", !.bb = 225,
                       !.it = it2 + remaining_length]
        ELSE IF s.seek < 2                            \* seek_counter -= 2
        THEN [s EXCEPT !.status = "panic_overflow", !.bb = 225]
        ELSE [buf |-> new_buf, it |-> new_it, seek |-> (s.seek - 2) + 1, bb |-> 225,
              prev |-> FALSE, status |-> "running"]

\* One iteration of the loop
ClearIter(s, checks) ==
    LET has == s.it < Len(s.buf)
        bb  == IF has THEN s.buf[s.it + 1] ELSE s.bb
        it1 == IF has THEN s.it + 1 ELSE s.it
    IN  IF s.prev
        THEN CASE bb = 225 -> ClearApp1(s, it1, checks)
               [] bb = 217 -> [s EXCEPT !.bb = bb, !.it = it1, !.status = "ok"]
               [] OTHER    -> [s EXCEPT !.bb = bb, !.it = it1, !.prev = FALSE,
                                        !.seek = s.seek + 1]
        ELSE [s EXCEPT !.bb = bb, !.it = it1, !.prev = (bb = JPG_MARKER_PREFIX),
                       !.seek = s.seek + 1]

\* The loop.  Every iteration that does not end it moves the iterator one
\* item further or finds it exhausted; once it is exhausted byte_buffer is
\* stale, no arm can end the loop any more and only seek_counter changes:
\* the loop never ends ("diverge").
RECURSIVE ClearLoop(_, _)
ClearLoop(s, checks) ==
    IF s.status # "running" THEN s
    ELSE IF s.it >= Len(s.buf) /\ ClearIter(s, checks).status = "running"
         THEN [s EXCEPT !.status = "diverge"]
         ELSE ClearLoop(ClearIter(s, checks), checks)

clear_metadata(buf, checks) ==
    LET sig == check_signature(buf)
    IN  IF sig # "ok" THEN [status |-> sig, buf |-> buf]
        ELSE LET r == ClearLoop(ClearInit(buf), checks)
             IN  [status |-> r.status, buf |-> r.buf]

(***************************************************************************)
(* util::insert_multiple_at                                                *)
(***************************************************************************)
\* an insert that puts the items in front of everything
insert_multiple_at_front(v, index, items) == items \o v

insert_multiple_at(v, index, items) ==
    Slice(v, 0, index) \o items \o Slice(v, index, Len(v))

(***************************************************************************)
(* write_metadata                                                          *)
(***************************************************************************)
write_metadata(buf, general_encoded_metadata, checks) ==
    LET c == clear_metadata(buf, checks)
        e == encode_metadata_jpg(general_encoded_metadata, checks)
    IN  IF c.status # "ok" THEN c
        ELSE IF e.status # "ok" THEN [status |-> e.status, buf |-> c.buf]
        ELSE [status |-> "ok", buf |-> insert_multiple_at(c.buf, 2, e.bytes)]

(***************************************************************************)
(* skip_ecs, on a cursor at position pos (0-based) of buf.  read_exact     *)
(* fails at the end of the data.                                           *)
(***************************************************************************)
\* the marker bytes the match arm of skip_ecs lists as data
EcsContinueBytes == {208, 209, 210, 211, 212, 213, 6, 215, 0}

RECURSIVE SkipEcsLoop(_, _, _)
SkipEcsLoop(buf, pos, prev) ==
    IF pos >= Len(buf) THEN [status |-> "eof", pos |-> pos]
    ELSE LET byte == buf[pos + 1]
         IN  IF prev
             THEN IF byte \in EcsContinueBytes
                  THEN SkipEcsLoop(buf, pos + 1, FALSE)
                  ELSE [status |-> "ok", pos |-> (pos + 1) - 2]   \* seek_relative(-2)
             ELSE SkipEcsLoop(buf, pos + 1, byte = JPG_MARKER_PREFIX)

skip_ecs(buf, pos) == SkipEcsLoop(buf, pos, FALSE)

(***************************************************************************)
(* generic_read_metadata, on a cursor at position pos of buf.              *)
(***************************************************************************)
RECURSIVE ReadLoop(_, _, _, _)
ReadLoop(buf, pos, prev, checks) ==
    IF pos >= Len(buf) THEN [status |-> "eof", out |-> <<>>]
    ELSE LET byte == buf[pos + 1]
             p1   == pos + 1
         IN  IF ~prev THEN ReadLoop(buf, p1, byte = JPG_MARKER_PREFIX, checks)
             ELSE IF byte = 217 THEN [status |-> "not_found", out |-> <<>>]
             ELSE IF p1 + 2 > Len(buf) THEN [status |-> "eof", out |-> <<>>]
             ELSE LET length == U16From(Slice(buf, p1, p1 + 2), TRUE)
                      rem    == SubU16(length, 2, checks)
                      remaining_length == rem.val
                      p2     == p1 + 2
                  IN  IF rem.panic THEN [status |-> "panic_overflow", out |-> <<>>]
                      ELSE CASE byte = 225 ->
                                  IF p2 + remaining_length > Len(buf)
                                  THEN [status |-> "eof", out |-> <<>>]
                                  ELSE [status |-> "ok",
                                        out |-> Slice(buf, p2, p2 + remaining_length)]
                             [] byte = 218 ->
                                  LET e == skip_ecs(buf, p2 + remaining_length)
                                  IN  IF e.status # "ok"
                                      THEN [status |-> e.status, out |-> <<>>]
                                      ELSE ReadLoop(buf, e.pos, FALSE, checks)
                             [] OTHER ->
                                  ReadLoop(buf, p2 + remaining_length, FALSE, checks)

generic_read_metadata(buf, pos, checks) == ReadLoop(buf, pos, FALSE, checks)

(***************************************************************************)
(* read_metadata                                                           *)
(***************************************************************************)
read_metadata(buf, checks) ==
    LET sig == check_signature(buf)
    IN  IF sig # "ok" THEN [status |-> sig, out |-> <<>>]
        ELSE generic_read_metadata(buf, 2, checks)

(***************************************************************************)
(* The buffers the JPEG engine is run on: the signature, up to MaxSegs     *)
(* segments (APP1 0xE1 or DQT 0xDB, with a correct declared length or a    *)
(* declared length of 1 or 2 and no payload) and a tail: nothing (a        *)
(* truncated file), EOI, or SOS + entropy-coded data + EOI.  A few buffers *)
(* that are no JPEG at all are added.                                      *)
(***************************************************************************)
PayloadBytes == {17, 255}
SegPayloads == UNION {[1..k -> PayloadBytes] : k \in 1..MaxPayloadLen}
SegMarkers == {225, 219}
Segment(marker, body) ==
    <<JPG_MARKER_PREFIX, marker>> \o U16Bytes(Len(body) + 2, TRUE) \o body
GoodSegments == {Segment(m, p) : m \in SegMarkers, p \in SegPayloads}
ShortSegments == {<<JPG_MARKER_PREFIX, m, 0, l>> : m \in SegMarkers, l \in {1, 2}}
Segments == GoodSegments \cup ShortSegments
EOI == <<255, 217>>
SosTail == <<255, 218, 0, 3, 17, 34, 255, 0, 51>> \o EOI
Tails == {<<>>, EOI, SosTail}
JpgBuffers == {JPG_SIGNATURE \o Flatten(ss) \o t : ss \in SeqsUpTo(Segments, MaxSegs), t \in Tails}
\* FF D8, an APP1 segment of declared length 0x0008, FF D9
ScenarioBuffer == JPG_SIGNATURE \o <<255, 225, 0, 8, 69, 120, 105, 102, 1, 2>> \o EOI
OtherBuffers == {<<>>, <<255>>, <<137, 80, 78, 71>>, <<255, 217, 255, 225>>, ScenarioBuffer}
WritePayloads == {<<42>>, <<255, 217>>}

\* buffers with scan data or marker-like payload bytes: a DQT segment whose
\* payload holds FF E1 and FF D9; a scan with a restart marker RST6, then a
\* DQT segment whose payload holds FF E1, then EOI; a scan with RST6 and EOI
ScanBuffers ==
    { JPG_SIGNATURE \o Segment(219, <<255, 225, 0, 2, 255, 217>>) \o EOI,
      JPG_SIGNATURE \o <<255, 218, 0, 2, 34, 255, 214, 0, 6>>
          \o Segment(219, <<255, 225, 0, 2>>) \o EOI,
      JPG_SIGNATURE \o <<255, 218, 0, 2, 34, 255, 214, 51, 68>> \o EOI }

\* the state of skip_ecs while the engine's other operations are run
\* the Metadata facade and the codec at rest
NoTag == [id |-> -1, known |-> FALSE, fmt |-> 0, group |-> "none", value |-> <<>>]
NoGet == [id |-> -1, res |-> NoTag]
NoDecoded ==
    [status |-> "none", cause |-> "none", endian |-> "none", tags |-> <<>>, depth |-> 0]
NoDesc == [big |-> FALSE, entries |-> <<>>, declared |-> 0, ifd0 |-> "none",
           head |-> "none"]
MetaIdle ==
    /\ data = <<>> /\ endian = "Little" /\ set_hist = <<>> /\ got = NoGet
    /\ meta_pc = "idle" /\ payload = <<>> /\ wire = <<>> /\ wire_desc = NoDesc
    /\ decoded = NoDecoded

EcsIdle == ecs_data = <<>> /\ ecs_result = [status |-> "none", pos |-> 0]

JpgInit ==
    /\ EcsIdle
    /\ MetaIdle
    /\ file_buffer \in JpgBuffers \cup OtherBuffers \cup ScanBuffers
    /\ jpg_input = file_buffer
    /\ jpg_before = file_buffer
    /\ jpg_hist = <<>>
    /\ jpg_status = "none"
    /\ jpg_out = <<>>
    /\ jpg_arg = <<>>
    /\ overflow_checks \in BOOLEAN

JpgCanRun == Len(jpg_hist) < MaxOps /\ ~Dead(jpg_status)

\* Metadata::clear_metadata(file_buffer, JPEG) -> jpg::clear_metadata
Clear ==
    /\ JpgCanRun
    /\ LET r == clear_metadata(file_buffer, overflow_checks)
       IN  /\ file_buffer' = r.buf
           /\ jpg_status' = r.status
    /\ jpg_before' = file_buffer
    /\ jpg_hist' = Append(jpg_hist, [op |-> "clear", status |-> jpg_status'])
    /\ jpg_out' = <<>>
    /\ jpg_arg' = <<>>
    /\ UNCHANGED <<jpg_input, overflow_checks, ecs_vars, meta_vars>>

\* Metadata::write_to_vec(file_buffer, JPEG) -> jpg::write_metadata
Write ==
    /\ JpgCanRun
    /\ \E p \in WritePayloads :
         LET r == write_metadata(file_buffer, p, overflow_checks)
         IN  /\ file_buffer' = r.buf
             /\ jpg_status' = r.status
             /\ jpg_arg' = p
    /\ jpg_before' = file_buffer
    /\ jpg_hist' = Append(jpg_hist, [op |-> "write", status |-> jpg_status'])
    /\ jpg_out' = <<>>
    /\ UNCHANGED <<jpg_input, overflow_checks, ecs_vars, meta_vars>>

\* Metadata::new_from_vec(file_buffer, JPEG) -> jpg::read_metadata
Read ==
    /\ JpgCanRun
    /\ LET r == read_metadata(file_buffer, overflow_checks)
       IN  /\ jpg_status' = r.status
           /\ jpg_out' = r.out
    /\ jpg_before' = file_buffer
    /\ jpg_hist' = Append(jpg_hist, [op |-> "read", status |-> jpg_status'])
    /\ UNCHANGED <<file_buffer, jpg_input, jpg_arg, overflow_checks, ecs_vars,
                   meta_vars>>

JpgNext == Clear \/ Write \/ Read

SpecJpg == JpgInit /\ [][JpgNext]_vars

(***************************************************************************)
(* The segment structure of a buffer, as the JPEG format defines it: from  *)
(* offset 2 on, segments FF marker length payload, walked by their         *)
(* declared length up to EOI, SOS or the first malformed place.            *)
(***************************************************************************)
RECURSIVE SegWalk(_, _)
SegWalk(buf, pos) ==
    IF pos + 4 > Len(buf) \/ buf[pos + 1] # 255 \/ buf[pos + 2] \in {217, 218}
    THEN [segs |-> <<>>, stop |-> pos]
    ELSE LET length == U16From(Slice(buf, pos + 2, pos + 4), TRUE)
             to     == pos + 2 + length
         IN  IF length < 2 \/ to > Len(buf)
             THEN [segs |-> <<>>, stop |-> pos]
             ELSE LET rest == SegWalk(buf, to)
                  IN  [segs |-> <<[from |-> pos, to |-> to, marker |-> buf[pos + 2]]>>
                                \o rest.segs,
                       stop |-> rest.stop]

HasSignature(buf) == Len(buf) >= 2 /\ Slice(buf, 0, 2) = JPG_SIGNATURE

App1Segs(buf) ==
    LET w == SegWalk(buf, 2) IN {i \in 1..Len(w.segs) : w.segs[i].marker = 225}

App1Count(buf) == IF HasSignature(buf) THEN Cardinality(App1Segs(buf)) ELSE 0

\* SOI, segments, then EOI or a SOS segment with scan data and EOI
WellFormed(buf) ==
    /\ HasSignature(buf)
    /\ LET w == SegWalk(buf, 2)
           t == Slice(buf, w.stop, Len(buf))
       IN  \/ t = EOI
           \/ /\ Len(t) >= 6
              /\ Slice(t, 0, 2) = <<255, 218>>
              /\ Slice(t, Len(t) - 2, Len(t)) = EOI
              /\ U16From(Slice(t, 2, 4), TRUE) >= 2
              /\ 2 + U16From(Slice(t, 2, 4), TRUE) <= Len(t) - 2

\* buf without the segments whose index (in walk order) is in drop
RECURSIVE DropSegs(_, _, _, _)
DropSegs(buf, segs, i, drop) ==
    IF i > Len(segs) THEN <<>>
    ELSE (IF i \in drop THEN <<>> ELSE Slice(buf, segs[i].from, segs[i].to))
         \o DropSegs(buf, segs, i + 1, drop)

WithoutSegs(buf, drop) ==
    LET w == SegWalk(buf, 2)
    IN  JPG_SIGNATURE \o DropSegs(buf, w.segs, 1, drop) \o Slice(buf, w.stop, Len(buf))

OpsAre(ops) ==
    /\ Len(jpg_hist) = Len(ops)
    /\ \A i \in 1..Len(ops) : jpg_hist[i].op = ops[i]

AllOk == \A i \in 1..Len(jpg_hist) : jpg_hist[i].status = "ok"

(***************************************************************************)
(* C2  Write then read: after write(B, P) succeeds on a buffer with a      *)
(* valid signature, read returns the payload written (the bytes of the     *)
(* segment, which begin with the EXIF preamble write puts in front of P)   *)
(* and the buffer holds exactly one APP1 segment.                          *)
(***************************************************************************)
C2_WriteThenRead ==
    (OpsAre(<<"write", "read">>) /\ HasSignature(jpg_input) /\ jpg_hist[1].status = "ok")
    => /\ jpg_status = "ok"
       /\ jpg_out = EXIF_HEADER \o jpg_arg
       /\ App1Count(file_buffer) = 1

(***************************************************************************)
(* C3  Idempotent clear: on a well-formed buffer B, clear run on clear(B)  *)
(* leaves the buffer equal to clear(B).                                    *)
(***************************************************************************)
C3_ClearIdempotent ==
    (OpsAre(<<"clear", "clear">>) /\ WellFormed(jpg_input) /\ AllOk)
    => file_buffer = jpg_before

(***************************************************************************)
(* C4  Exact removal: clear deletes whole APP1 segments and nothing else,  *)
(* so what it leaves is the input without some of its APP1 segments; and   *)
(* on FF D8, APP1 of declared length 8, FF D9 it returns with FF D8 FF D9. *)
(***************************************************************************)
C4_ExactRemoval ==
    OpsAre(<<"clear">>) =>
       /\ (WellFormed(jpg_input) /\ jpg_status = "ok")
            => \E drop \in SUBSET App1Segs(jpg_input) :
                  file_buffer = WithoutSegs(jpg_input, drop)
       /\ jpg_input = ScenarioBuffer
            => (jpg_status = "ok" /\ file_buffer = JPG_SIGNATURE \o EOI)

(***************************************************************************)
(* C5  Several APP1 segments: after clear returns on a well-formed buffer  *)
(* with two or more APP1 segments, at most one APP1 segment is left.       *)
(***************************************************************************)
C5_AtMostOneApp1 ==
    (OpsAre(<<"clear">>) /\ WellFormed(jpg_input) /\ App1Count(jpg_input) >= 2
        /\ jpg_status = "ok")
    => App1Count(file_buffer) <= 1

(***************************************************************************)
(* skip_ecs on its own: the cursor stands at the start of entropy-coded    *)
(* data drawn from the bytes that matter to the scan.                      *)
(***************************************************************************)
EcsBytes == {0, 6, 17, 192, 208, 212, 214, 215, 255}

\* the state of the buffer operations while skip_ecs is run on its own
JpgIdle ==
    /\ file_buffer = <<>> /\ jpg_input = <<>> /\ jpg_before = <<>> /\ jpg_hist = <<>>
    /\ jpg_status = "none" /\ jpg_out = <<>> /\ jpg_arg = <<>>

EcsInit ==
    /\ JpgIdle
    /\ MetaIdle
    /\ overflow_checks = FALSE
    /\ ecs_data \in SeqsUpTo(EcsBytes, MaxEcsLen)
    /\ ecs_result = [status |-> "none", pos |-> 0]

SkipEcs ==
    /\ ecs_result.status = "none"
    /\ ecs_result' = skip_ecs(ecs_data, 0)
    /\ UNCHANGED <<ecs_data, jpg_vars, overflow_checks, meta_vars>>

EcsNext == SkipEcs

SpecEcs == EcsInit /\ [][EcsNext]_vars

(***************************************************************************)
(* C6  Entropy-coded-segment boundary: 0xFF followed by 0x00 or by a       *)
(* restart marker 0xD0..0xD7 is data; 0xFF followed by any other byte ends *)
(* the skip with the cursor at that 0xFF.  So a skip that ends stands at   *)
(* the first 0xFF whose next byte is neither, and a skip that runs out of  *)
(* data met no such pair.                                                  *)
(***************************************************************************)
EcsDataAfterPrefix == {0} \cup (208..215)

\* the 0-based positions of the 0xFF bytes the scan takes as a marker prefix:
\* a byte that follows a prefix is never a prefix itself
RECURSIVE EcsPrefixes(_, _)
EcsPrefixes(d, pos) ==
    IF pos >= Len(d) THEN {}
    ELSE IF d[pos + 1] = 255 THEN {pos} \cup EcsPrefixes(d, pos + 2)
    ELSE EcsPrefixes(d, pos + 1)

EcsRealMarkers(d) ==
    {p \in EcsPrefixes(d, 0) : p + 2 <= Len(d) /\ d[p + 2] \notin EcsDataAfterPrefix}

C6_EcsBoundary ==
    ecs_result.status # "none" =>
        IF EcsRealMarkers(ecs_data) = {}
        THEN ecs_result.status = "eof"
        ELSE /\ ecs_result.status = "ok"
             /\ ecs_result.pos \in EcsRealMarkers(ecs_data)
             /\ \A p \in EcsRealMarkers(ecs_data) : ecs_result.pos <= p

(***************************************************************************)
(* The tag model (exif_tag.rs, exif_tag_format.rs, u8conversion.rs,        *)
(* endian.rs): format codes with their component sizes, the groups, and a  *)
(* few of the known tags.  A tag is a record: id, known (FALSE for the     *)
(* catch-all unknown variant), fmt (format code), group, value (the        *)
(* components: characters of a string, numbers otherwise).                 *)
(***************************************************************************)
INT8U == 1
STRING_FMT == 2
INT16U == 3
INT32U == 4
INT32S == 9
FormatSizes == <<1, 1, 2, 4, 8, 1, 1, 2, 4, 8, 4, 8>>

\* ExifTagFormat::from_u16 is Some for these codes
ValidFormat(code) == code \in 1..Len(FormatSizes)
bytes_per_component(fmt) == FormatSizes[fmt]

GroupRank(g) ==
    CASE g = "IFD0" -> 0 [] g = "ExifIFD" -> 1 [] g = "GPSIFD" -> 2 [] g = "InteropIFD" -> 3

ImageWidth == 256
ImageDescription == 270
ExifOffset == 34665
GPSInfo == 34853
ISO == 34855
InteropOffset == 40965
InteropIndex == 1
GPSAltitudeRef == 5
KnownIds == {ImageWidth, ImageDescription, ExifOffset, GPSInfo, ISO, InteropOffset,
             InteropIndex, GPSAltitudeRef}

\* per known id: canonical format, group, writable, and the group of the SubIFD
\* an offset tag points to ("none" for a tag that is no offset tag)
TagInfo(id) ==
    CASE id = ImageWidth       -> [fmt |-> INT32U, group |-> "IFD0", writable |-> TRUE, sub |-> "none"]
      [] id = ImageDescription -> [fmt |-> STRING_FMT, group |-> "IFD0", writable |-> TRUE, sub |-> "none"]
      [] id = ExifOffset       -> [fmt |-> INT32U, group |-> "IFD0", writable |-> FALSE, sub |-> "ExifIFD"]
      [] id = GPSInfo          -> [fmt |-> INT32U, group |-> "IFD0", writable |-> FALSE, sub |-> "GPSIFD"]
      [] id = ISO              -> [fmt |-> INT16U, group |-> "ExifIFD", writable |-> TRUE, sub |-> "none"]
      [] id = InteropOffset    -> [fmt |-> INT32U, group |-> "ExifIFD", writable |-> FALSE, sub |-> "InteropIFD"]
      [] id = InteropIndex     -> [fmt |-> STRING_FMT, group |-> "InteropIFD", writable |-> TRUE, sub |-> "none"]
      [] id = GPSAltitudeRef   -> [fmt |-> INT8U, group |-> "GPSIFD", writable |-> TRUE, sub |-> "none"]

KnownTag(id, value) ==
    [id |-> id, known |-> TRUE, fmt |-> TagInfo(id).fmt, group |-> TagInfo(id).group,
     value |-> value]
UnknownTag(id, fmt, group, value) ==
    [id |-> id, known |-> FALSE, fmt |-> fmt, group |-> group, value |-> value]

as_u16(tag) == tag.id
tag_format(tag) == tag.fmt
get_group(tag) == tag.group
is_unknown(tag) == ~tag.known
is_writable(tag) == IF tag.known THEN TagInfo(tag.id).writable ELSE TRUE
is_string(tag) == tag.fmt = STRING_FMT
is_offset_tag(tag) == IF tag.known THEN TagInfo(tag.id).sub ELSE "none"
\* a string counts its terminating NUL
number_of_components(tag) == Len(tag.value) + (IF is_string(tag) THEN 1 ELSE 0)

\* to_u8_vec / from_u8_vec of an unsigned integer of k bytes
RECURSIVE IntBytesLE(_, _)
IntBytesLE(x, k) == IF k = 0 THEN <<>> ELSE <<x % 256>> \o IntBytesLE(x \div 256, k - 1)
Reverse(v) == [i \in 1..Len(v) |-> v[Len(v) + 1 - i]]
IntBytes(x, k, big) == IF big THEN Reverse(IntBytesLE(x, k)) ELSE IntBytesLE(x, k)
RECURSIVE IntFromLE(_)
IntFromLE(v) == IF v = <<>> THEN 0 ELSE v[1] + 256 * IntFromLE(Tail(v))
IntFrom(v, big) == IF big THEN IntFromLE(Reverse(v)) ELSE IntFromLE(v)
U32Bytes(x, big) == IntBytes(x, 4, big)
U32From(v, big) == IntFrom(v, big)

\* the components of a value of format fmt as bytes, and back; a string is
\* written without its NUL and read dropping NULs; a component of 8 bytes
\* (a rational) is a pair of 32-bit numbers
ComponentBytes(c, size, big) ==
    IF size = 8 THEN U32Bytes(c[1], big) \o U32Bytes(c[2], big) ELSE IntBytes(c, size, big)
ComponentFrom(v, size, big) ==
    IF size = 8 THEN <<U32From(SubSeq(v, 1, 4), big), U32From(SubSeq(v, 5, 8), big)>>
    ELSE IntFrom(v, big)
ValueBytes(value, fmt, big) ==
    IF fmt = STRING_FMT THEN value
    ELSE Flatten([i \in 1..Len(value) |->
                     ComponentBytes(value[i], bytes_per_component(fmt), big)])
ValueFrom(raw, fmt, big) ==
    IF fmt = STRING_FMT THEN SelectSeq(raw, LAMBDA b : b # 0)
    ELSE LET size == bytes_per_component(fmt)
         IN  [i \in 1..(Len(raw) \div size) |->
                 ComponentFrom(SubSeq(raw, (i - 1) * size + 1, i * size), size, big)]

value_as_u8_vec(tag, big) == ValueBytes(tag.value, tag.fmt, big)

\* ExifTag::from_u16_with_data: the known tag of that id, or the unknown
\* variant, which keeps the group of the directory it was found in
from_u16_with_data(hex_tag, fmt, raw_data, big, group) ==
    IF hex_tag \in KnownIds
    THEN KnownTag(hex_tag, ValueFrom(raw_data, fmt, big))
    ELSE UnknownTag(hex_tag, fmt, group, ValueFrom(raw_data, fmt, big))

\* Endian::header()
EndianHeader(big) ==
    IF big THEN <<77, 77, 0, 42, 0, 0, 0, 8>> ELSE <<73, 73, 42, 0, 8, 0, 0, 0>>
IsBig(e) == e = "Big"

(***************************************************************************)
(* metadata.rs constants.                                                  *)
(***************************************************************************)
IFD_ENTRY_LENGTH == 12
IFD_END == <<0, 0, 0, 0>>

(***************************************************************************)
(* Metadata::encode_ifd.  The result is [some, next_offset, bytes].        *)
(***************************************************************************)
NoneIfd == [some |-> FALSE, next_offset |-> 0, bytes |-> <<>>]

\* the loop over self.data that writes the directory entries, from tag i on;
\* acc = [vec (the entries), area (ifd_offset_area), next_offset]
RECURSIVE EncodeEntries(_, _, _, _, _)
EncodeEntries(tags, i, big, group, acc) ==
    IF i > Len(tags) THEN acc
    ELSE LET tag == tags[i]
         IN  IF ~is_writable(tag) \/ get_group(tag) # group
             THEN EncodeEntries(tags, i + 1, big, group, acc)
             ELSE LET value == value_as_u8_vec(tag, big)
                      number == number_of_components(tag)
                      head  == U16Bytes(as_u16(tag), big) \o U16Bytes(tag_format(tag), big)
                               \o U32Bytes(number, big)
                      string_padding ==
                          IF is_string(tag) THEN [k \in 1..(number - Len(value)) |-> 0]
                          ELSE <<>>
                      byte_count == number * bytes_per_component(tag_format(tag))
                      inline == value \o string_padding
                      next  ==
                          IF byte_count > 4
                          THEN [vec  |-> acc.vec \o head \o U32Bytes(acc.next_offset, big),
                                area |-> acc.area \o value \o string_padding,
                                next_offset |-> acc.next_offset + byte_count]
                          ELSE [vec  |-> acc.vec \o head \o inline
                                         \o [k \in 1..(4 - Len(inline)) |-> 0],
                                area |-> acc.area,
                                next_offset |-> acc.next_offset]
                  IN  EncodeEntries(tags, i + 1, big, group, next)

\* subifd_tag is a tag, or NoTag for None
encode_ifd(tags, big, group, given_offset, next_ifd_link, subifd_tag) ==
    LET has_sub == subifd_tag # NoTag
        count_entries ==
            (IF has_sub THEN 1 ELSE 0)
            + Cardinality({i \in 1..Len(tags) :
                             is_writable(tags[i]) /\ get_group(tags[i]) = group})
        first_offset == 0 + given_offset + 2 + IFD_ENTRY_LENGTH * count_entries
                        + Len(next_ifd_link)
        e == EncodeEntries(tags, 1, big, group,
                           [vec |-> <<>>, area |-> <<>>, next_offset |-> first_offset])
        sub_entry ==
            IF has_sub
            THEN U16Bytes(as_u16(subifd_tag), big) \o U16Bytes(tag_format(subifd_tag), big)
                 \o U32Bytes(number_of_components(subifd_tag), big)
                 \o U32Bytes(e.next_offset, big)
            ELSE <<>>
    IN  IF count_entries = 0 THEN NoneIfd
        ELSE [some |-> TRUE, next_offset |-> e.next_offset,
              bytes |-> U16Bytes(count_entries, big) \o e.vec \o sub_entry
                        \o next_ifd_link \o e.area]

(***************************************************************************)
(* Metadata::encode_metadata_general                                       *)
(***************************************************************************)
encode_metadata_general(tags, big) ==
    LET ifd0 == encode_ifd(tags, big, "IFD0", 8, IFD_END, KnownTag(ExifOffset, <<0>>))
        off1 == IF ifd0.some THEN ifd0.next_offset ELSE 8
        exif == encode_ifd(tags, big, "ExifIFD", off1, IFD_END,
                           KnownTag(InteropOffset, <<0>>))
        off2 == IF exif.some THEN exif.next_offset ELSE off1
        interop == encode_ifd(tags, big, "InteropIFD", off2, IFD_END, NoTag)
    IN  EndianHeader(big) \o ifd0.bytes \o exif.bytes \o interop.bytes

(***************************************************************************)
(* Metadata::decode_ifd.  The result is [status, cause, tags, depth]; an   *)
(* error message quotes the message of the error it wraps, cause is the    *)
(* error quoted innermost; depth is how many calls of decode_ifd were      *)
(* nested at most, this one included.  path holds the ifd_start of the calls this call is   *)
(* nested in: nothing but ifd_start decides what a call does, so a call    *)
(* with an ifd_start of path repeats its caller for ever and the recursion *)
(* ends in a stack overflow.                                                *)
(***************************************************************************)
IfdOk(tags, depth) == [status |-> "ok", cause |-> "none", tags |-> tags, depth |-> depth]
IfdFailed(st, cause, depth) ==
    [status |-> st, cause |-> cause, tags |-> <<>>, depth |-> depth]
Max(a, b) == IF a >= b THEN a ELSE b

\* the special case of the format check: INT16U data for an INT32U tag
\* (mutation: every mismatch is taken for the special case)
IsSpecialCaseAny(tag_fmt, fmt) == TRUE

IsSpecialCase(tag_fmt, fmt) == tag_fmt = INT32U /\ fmt = INT16U

RECURSIVE decode_ifd(_, _, _, _, _)
RECURSIVE DecodeEntries(_, _, _, _, _, _, _, _, _)

\* the for loop of decode_ifd, from entry i on (0-based); tags holds the
\* tags of the entries before, deep the depth the calls made for them reached
DecodeEntries(d, group, ifd_start, big, path, i, number_of_entries, tags, deep) ==
    IF i >= number_of_entries THEN IfdOk(tags, deep)
    ELSE
    LET entry_start_index == ifd_start + (2 + i * IFD_ENTRY_LENGTH)
        hex_tag    == U16From(Slice(d, entry_start_index, entry_start_index + 2), big)
        hex_format == U16From(Slice(d, entry_start_index + 2, entry_start_index + 4), big)
        hex_component_number ==
            U32From(Slice(d, entry_start_index + 4, entry_start_index + 8), big)
        byte_count == bytes_per_component(hex_format) * hex_component_number
        hex_offset ==
            U32From(Slice(d, entry_start_index + 8, entry_start_index + 12), big)
        raw_data ==
            IF byte_count > 4 THEN Slice(d, hex_offset, hex_offset + byte_count)
            ELSE Slice(d, entry_start_index + 8, entry_start_index + 8 + byte_count)
        known == hex_tag \in KnownIds
        canon == TagInfo(hex_tag)
        more(t) == DecodeEntries(d, group, ifd_start, big, path, i + 1,
                                 number_of_entries, t, deep)
    IN  IF ~ValidFormat(hex_format) THEN IfdFailed("err_format", "err_format", deep)
        ELSE IF byte_count > 4 /\ hex_offset + byte_count > Len(d)
        THEN IfdFailed("panic_slice", "panic_slice", deep)
        ELSE IF known /\ canon.sub # "none"
        THEN LET offset == U32From(raw_data, big)
                 subifd_decode_result ==
                     decode_ifd(d, canon.sub, offset, big, path \cup {ifd_start})
                 below == Max(deep, 1 + subifd_decode_result.depth)
             IN  IF subifd_decode_result.status = "ok"
                 THEN DecodeEntries(d, group, ifd_start, big, path, i + 1,
                                    number_of_entries,
                                    tags \o subifd_decode_result.tags, below)
                 ELSE IF Dead(subifd_decode_result.status)
                 THEN [subifd_decode_result EXCEPT !.depth = below]
                 ELSE IfdFailed("err_subifd", subifd_decode_result.cause, below)
        ELSE IF known /\ canon.fmt # hex_format
        THEN IF IsSpecialCase(canon.fmt, hex_format)
             THEN more(Append(tags, KnownTag(hex_tag, ValueFrom(raw_data, INT16U, big))))
             ELSE IfdFailed("err_incompatible", "err_incompatible", deep)
        ELSE more(Append(tags, from_u16_with_data(hex_tag, hex_format, raw_data, big,
                                                  group)))

decode_ifd(d, group, ifd_start, big, path) ==
    IF Len(d) <= 8 THEN IfdOk(<<>>, 1)
    ELSE IF ifd_start \in path THEN IfdFailed("stack_overflow", "stack_overflow", 1)
    ELSE IF ifd_start + 2 > Len(d) THEN IfdFailed("panic_slice", "panic_slice", 1)
    ELSE LET number_of_entries == U16From(Slice(d, ifd_start, ifd_start + 2), big)
         IN  IF ~(2 + IFD_ENTRY_LENGTH * number_of_entries + Len(IFD_END)
                    <= Len(d) - ifd_start)
             THEN IfdFailed("panic_assert", "panic_assert", 1)
             ELSE DecodeEntries(d, group, ifd_start, big, path, 0, number_of_entries,
                                <<>>, 1)

(***************************************************************************)
(* Metadata::decode_metadata_general.  The result is [status, cause,       *)
(* endian, tags, depth]; depth is the depth decode_ifd reached, 0 when it  *)
(* was not called.                                                         *)
(***************************************************************************)
\* an endian test that takes everything but "MM" for little endian
DetermineEndianLenient(encoded_data) ==
    IF encoded_data[7] = 77 /\ encoded_data[8] = 77 THEN "Big" ELSE "Little"

\* "II" is Little, "MM" is Big, anything else is illegal
DetermineEndian(encoded_data) ==
    IF encoded_data[7] = 73 /\ encoded_data[8] = 73 THEN "Little"
    ELSE IF encoded_data[7] = 77 /\ encoded_data[8] = 77 THEN "Big"
    ELSE "none"

DecodeFailed(st, cause) ==
    [status |-> st, cause |-> cause, endian |-> "none", tags |-> <<>>, depth |-> 0]

decode_metadata_general(encoded_data) ==
    IF Len(encoded_data) < Len(EXIF_HEADER) + Len(EndianHeader(TRUE)) + 2 + Len(IFD_END)
    THEN DecodeFailed("err_short", "err_short")
    ELSE IF \E i \in 1..Len(EXIF_HEADER) : encoded_data[i] # EXIF_HEADER[i]
    THEN DecodeFailed("err_header", "err_header")
    ELSE IF DetermineEndian(encoded_data) = "none"
    THEN DecodeFailed("err_endian", "err_endian")
    ELSE LET e == DetermineEndian(encoded_data)
             ifd0_offset == U32From(Slice(encoded_data, 10, 14), IsBig(e))
             ifd0_decode_result ==
                 decode_ifd(Slice(encoded_data, 6, Len(encoded_data)), "IFD0",
                            ifd0_offset, IsBig(e), {})
         IN  IF ifd0_decode_result.status = "ok"
             THEN [status |-> "ok", cause |-> "none", endian |-> e,
                   tags |-> ifd0_decode_result.tags, depth |-> ifd0_decode_result.depth]
             ELSE IF Dead(ifd0_decode_result.status)
             THEN [DecodeFailed(ifd0_decode_result.status, ifd0_decode_result.cause)
                      EXCEPT !.depth = ifd0_decode_result.depth]
             ELSE [DecodeFailed("err_ifd0", ifd0_decode_result.cause)
                      EXCEPT !.depth = ifd0_decode_result.depth]

(***************************************************************************)
(* Metadata::get_tag_by_hex and Metadata::set_tag                          *)
(***************************************************************************)
get_tag_by_hex(tags, input_tag_hex) ==
    IF \E i \in 1..Len(tags) : as_u16(tags[i]) = input_tag_hex
    THEN LET first == CHOOSE i \in 1..Len(tags) :
                         /\ as_u16(tags[i]) = input_tag_hex
                         /\ \A j \in 1..(i - 1) : as_u16(tags[j]) # input_tag_hex
         IN  tags[first]
    ELSE NoTag

\* a closure that tells no two tags apart
TagOrderingAllEqual(a, b) == "Equal"

\* the closure handed to sort_by
TagOrdering(a, b) ==
    IF get_group(a) = get_group(b)
    THEN IF is_unknown(a) = is_unknown(b) THEN "Equal"
         ELSE IF ~is_unknown(a) /\ is_unknown(b) THEN "Less"
         ELSE "Greater"
    ELSE IF GroupRank(get_group(a)) < GroupRank(get_group(b)) THEN "Less"
         ELSE "Greater"

\* sort_by is a stable sort: x goes in front of the first element it is Less than
InsertSorted(sorted, x) ==
    LET before == {i \in 1..Len(sorted) : TagOrdering(x, sorted[i]) = "Less"}
        at == IF before = {} THEN Len(sorted) + 1
              ELSE CHOOSE i \in before : \A j \in before : i <= j
    IN  SubSeq(sorted, 1, at - 1) \o <<x>> \o SubSeq(sorted, at, Len(sorted))

RECURSIVE SortBy(_)
SortBy(v) == IF v = <<>> THEN <<>> ELSE InsertSorted(SortBy(SubSeq(v, 1, Len(v) - 1)), v[Len(v)])

\* set_tag without its retain call
RetainNothingDropped(tags, input_tag) == tags

Retain(tags, input_tag) == SelectSeq(tags, LAMBDA tag : as_u16(tag) # as_u16(input_tag))

set_tag(tags, input_tag) == SortBy(Append(Retain(tags, input_tag), input_tag))

(***************************************************************************)
(* The Metadata facade: tags are set and looked up, then the tag list is   *)
(* encoded and the encoder's output is decoded.                            *)
(***************************************************************************)
MaxSetCalls == 3      \* set_tag calls on one Metadata

\* an unknown tag of IFD0 and one of the ExifIFD
UnknownIfd0Id == 39321
UnknownExifId == 39322

SetTagArgs ==
    { KnownTag(ImageDescription, <<104, 105>>),
      KnownTag(ImageDescription, <<104, 101, 108, 108, 111>>),
      KnownTag(ImageWidth, <<70000>>),
      KnownTag(ISO, <<1234>>),
      KnownTag(InteropIndex, <<82, 57, 56>>),
      KnownTag(GPSAltitudeRef, <<1>>),
      KnownTag(ExifOffset, <<8>>),
      UnknownTag(UnknownIfd0Id, INT16U, "IFD0", <<7>>),
      UnknownTag(UnknownExifId, INT32U, "ExifIFD", <<70000, 3>>) }

QueryIds == {as_u16(t) : t \in SetTagArgs} \cup {GPSInfo}

\* Metadata::new(), or a Metadata decoded from a file without tags, which
\* takes the file's byte order
MetaInit ==
    /\ JpgIdle
    /\ EcsIdle
    /\ overflow_checks = FALSE
    /\ data = <<>>
    /\ endian \in {"Little", "Big"}
    /\ set_hist = <<>>
    /\ got = NoGet
    /\ meta_pc = "edit"
    /\ payload = <<>>
    /\ wire = <<>>
    /\ wire_desc = NoDesc
    /\ decoded = NoDecoded

SetTag ==
    /\ meta_pc = "edit"
    /\ Len(set_hist) < MaxSetCalls
    /\ \E input_tag \in SetTagArgs :
          /\ data' = set_tag(data, input_tag)
          /\ set_hist' = Append(set_hist, input_tag)
    /\ got' = NoGet
    /\ UNCHANGED <<endian, meta_pc, payload, wire, wire_desc, decoded, jpg_vars,
                   overflow_checks, ecs_vars>>

GetTagByHex ==
    /\ meta_pc = "edit"
    /\ got = NoGet
    /\ \E input_tag_hex \in QueryIds :
          got' = [id |-> input_tag_hex, res |-> get_tag_by_hex(data, input_tag_hex)]
    /\ UNCHANGED <<data, endian, set_hist, meta_pc, payload, wire, wire_desc, decoded,
                   jpg_vars, overflow_checks, ecs_vars>>

\* Metadata::encode_metadata_general(), as write_to_file/as_u8_vec call it
Encode ==
    /\ meta_pc = "edit"
    /\ payload' = encode_metadata_general(data, IsBig(endian))
    /\ meta_pc' = "encoded"
    /\ got' = NoGet
    /\ UNCHANGED <<data, endian, set_hist, wire, wire_desc, decoded, jpg_vars,
                   overflow_checks, ecs_vars>>

\* decode_metadata_general on what a read of the written file hands it: the
\* EXIF preamble followed by the encoder's bytes
Decode ==
    /\ meta_pc = "encoded"
    /\ wire' = EXIF_HEADER \o payload
    /\ decoded' = decode_metadata_general(wire')
    /\ meta_pc' = "decoded"
    /\ UNCHANGED <<data, endian, set_hist, got, payload, wire_desc, jpg_vars,
                   overflow_checks, ecs_vars>>

Next == SetTag \/ GetTagByHex \/ Encode \/ Decode

Spec == MetaInit /\ [][Next]_vars

(***************************************************************************)
(* Properties of the Metadata facade and of encode followed by decode.     *)
(***************************************************************************)
SetIds == {as_u16(set_hist[i]) : i \in 1..Len(set_hist)}
LastSet(id) ==
    LET last == CHOOSE i \in 1..Len(set_hist) :
                    /\ as_u16(set_hist[i]) = id
                    /\ \A j \in (i + 1)..Len(set_hist) : as_u16(set_hist[j]) # id
    IN  set_hist[last]

\* C10: after any sequence of set_tag calls from an empty Metadata the tag
\* list holds one tag per numeric id that was set and no other, and
\* get_tag_by_hex(id) returns the tag most recently set with that id (None
\* for an id never set)
C10_UniqueIds ==
    /\ \A i, j \in 1..Len(data) : as_u16(data[i]) = as_u16(data[j]) => i = j
    /\ Len(data) = Cardinality(SetIds)
    /\ \A id \in SetIds : get_tag_by_hex(data, id) = LastSet(id)
    /\ got # NoGet =>
          got.res = IF got.id \in SetIds THEN LastSet(got.id) ELSE NoTag

\* C10 witness: an id is set, another tag is set, the first id is set again
\* with another value, and the lookup of that id returns the later tag
C10_Witness ==
    /\ Len(set_hist) = 3
    /\ as_u16(set_hist[1]) = as_u16(set_hist[3])
    /\ set_hist[1] # set_hist[3]
    /\ as_u16(set_hist[2]) # as_u16(set_hist[1])
    /\ got.id = as_u16(set_hist[1])
    /\ got.res = set_hist[3]
    /\ Len(data) = 2

\* what the round trip has to preserve of a tag
TagFacts(tags) ==
    [i \in 1..Len(tags) |->
        [id |-> as_u16(tags[i]), value |-> tags[i].value, group |-> get_group(tags[i])]]

\* only writable tags, of the groups encode_metadata_general writes
Eligible(tags) ==
    \A i \in 1..Len(tags) :
        is_writable(tags[i]) /\ get_group(tags[i]) \in {"IFD0", "ExifIFD", "InteropIFD"}

\* C1: for a tag list of writable tags of the groups encode writes, decoding
\* the encoder's payload succeeds and returns the endianness and the list in
\* (group, known-before-unknown) order with ids, values and groups kept;
\* ImageDescription = "hi", Little endian, comes back as that one tag
C1_RoundTrip ==
    (meta_pc = "decoded" /\ Eligible(data)) =>
        /\ decoded.status = "ok"
        /\ decoded.endian = endian
        /\ TagFacts(decoded.tags) = TagFacts(SortBy(data))
        /\ (data = <<KnownTag(ImageDescription, <<104, 105>>)>> /\ endian = "Little") =>
              TagFacts(decoded.tags)
                  = <<[id |-> ImageDescription, value |-> <<104, 105>>, group |-> "IFD0"]>>

\* the offsets the directory at start and the directories below it refer to:
\* [kind, off, len], a value kept in an offset area or a pointer to a SubIFD
RECURSIVE IfdRefs(_, _, _)
IfdRefs(p, start, big) ==
    IF start + 2 > Len(p) THEN {}
    ELSE LET n == U16From(Slice(p, start, start + 2), big)
             entry(i) == start + 2 + i * IFD_ENTRY_LENGTH
             complete == {i \in 0..(n - 1) : entry(i) + IFD_ENTRY_LENGTH <= Len(p)}
             id(i) == U16From(Slice(p, entry(i), entry(i) + 2), big)
             fmt(i) == U16From(Slice(p, entry(i) + 2, entry(i) + 4), big)
             count(i) == U32From(Slice(p, entry(i) + 4, entry(i) + 8), big)
             field(i) == U32From(Slice(p, entry(i) + 8, entry(i) + 12), big)
             isptr(i) == id(i) \in KnownIds /\ TagInfo(id(i)).sub # "none"
             bytes(i) == IF ValidFormat(fmt(i)) THEN bytes_per_component(fmt(i)) * count(i)
                         ELSE 0
             here == {[kind |-> IF isptr(i) THEN "pointer" ELSE "value",
                       off |-> field(i), len |-> bytes(i)] :
                        i \in {j \in complete : isptr(j) \/ bytes(j) > 4}}
         IN  here \cup UNION {IfdRefs(p, field(i), big) :
                                 i \in {j \in complete : isptr(j) /\ field(j) > start}}

\* C7: in the payload encode produces, every offset stored in an entry's
\* value/offset field lies inside the payload (a value with all its bytes)
\* and no two values of the offset areas overlap
C7_OffsetConsistency ==
    meta_pc \in {"encoded", "decoded"} =>
        LET refs == IfdRefs(payload, 8, IsBig(endian))
        IN  /\ \A r \in refs :
                  IF r.kind = "pointer" THEN r.off < Len(payload)
                  ELSE r.off + r.len <= Len(payload)
            /\ \A r1, r2 \in {r \in refs : r.kind = "value"} :
                  r1 # r2 => (r1.off + r1.len <= r2.off \/ r2.off + r2.len <= r1.off)

(***************************************************************************)
(* Metadata::general_decoding_wrapper: the Metadata a constructor returns  *)
(* for what the container reader gave it; raw is [status, out].            *)
(***************************************************************************)
\* a wrapper that hands the error on instead of an empty Metadata
general_decoding_wrapper_strict(raw) ==
    LET decoding_result ==
            IF raw.status = "ok" THEN decode_metadata_general(raw.out)
            ELSE DecodeFailed(raw.status, raw.status)
    IN  [status |-> decoding_result.status,
         endian |-> IF decoding_result.status = "ok" THEN decoding_result.endian
                    ELSE "Little",
         data |-> decoding_result.tags]

general_decoding_wrapper(raw) ==
    LET decoding_result ==
            IF raw.status = "ok" THEN decode_metadata_general(raw.out)
            ELSE DecodeFailed(raw.status, raw.status)
    IN  IF decoding_result.status = "ok"
        THEN [status |-> "ok", endian |-> decoding_result.endian,
              data |-> decoding_result.tags]
        ELSE IF Dead(decoding_result.status)
        THEN [status |-> decoding_result.status, endian |-> "Little", data |-> <<>>]
        ELSE [status |-> "ok", endian |-> "Little", data |-> <<>>]

(***************************************************************************)
(* Decoding bytes that come from a file.  A stream is put together from a  *)
(* description: byte order, the entries of IFD0, the entry count written   *)
(* in front of them, the IFD0 offset of the TIFF header, and how the head  *)
(* of the stream looks.  After IFD0 come six bytes of string data, an      *)
(* ExifIFD with one ISO entry, and three directories with one ExifOffset   *)
(* entry each, the first pointing at the second, the second at the third,  *)
(* the third at the ExifIFD, for the entries that point somewhere.         *)
(***************************************************************************)
MaxEntries == 2       \* entries of the IFD0 of a stream
InflatedCount == 50   \* an entry count the stream has no room for

WireEntry(id, fmt, count, at, comps) ==
    [id |-> id, fmt |-> fmt, count |-> count, at |-> at, comps |-> comps]

IllegalFormat == 13
IsoEntry == WireEntry(ISO, INT16U, 1, "inline", <<1234>>)
WireEntries ==
    { WireEntry(ImageWidth, INT32U, 1, "inline", <<70000>>),
      WireEntry(ImageWidth, INT16U, 1, "inline", <<300>>),
      WireEntry(ImageWidth, INT16U, 2, "inline", <<300, 7>>),
      WireEntry(ImageWidth, INT32S, 1, "inline", <<5>>),
      WireEntry(ImageWidth, IllegalFormat, 1, "inline", <<5>>),
      IsoEntry,
      WireEntry(ISO, INT32U, 1, "inline", <<1234>>),
      WireEntry(ExifOffset, INT32U, 1, "sub", <<>>),
      WireEntry(ExifOffset, INT32S, 1, "sub", <<>>),
      WireEntry(ExifOffset, INT16U, 2, "sub", <<>>),
      WireEntry(ExifOffset, INT32U, 1, "self", <<>>),
      WireEntry(ExifOffset, INT32U, 1, "end", <<>>),
      WireEntry(ExifOffset, INT32U, 1, "chain", <<>>),
      WireEntry(ImageDescription, STRING_FMT, 6, "area", <<>>),
      WireEntry(ImageDescription, STRING_FMT, 6, "end", <<>>),
      WireEntry(ImageDescription, INT8U, 2, "inline", <<104, 105>>),
      WireEntry(UnknownIfd0Id, INT16U, 1, "inline", <<7>>) }

WireDesc(big, entries, declared, ifd0, head) ==
    [big |-> big, entries |-> entries, declared |-> declared, ifd0 |-> ifd0,
     head |-> head]

\* streams with a sound head, and streams with one sound entry and an odd
\* head, entry count or IFD0 offset
WireDescs ==
    { WireDesc(big, entries, Len(entries), "start", "ok") :
        big \in BOOLEAN, entries \in SeqsUpTo(WireEntries, MaxEntries) }
    \cup
    { WireDesc(big, <<IsoEntry>>, declared, ifd0, head) :
        big \in BOOLEAN, declared \in {1, InflatedCount}, ifd0 \in {"start", "end"},
        head \in {"ok", "bad_preamble", "bad_endian", "short", "shortest"} }

StringArea == <<104, 101, 108, 108, 111, 0>>

\* offsets count from the start of the TIFF header
AreaOffset(desc) == 8 + 2 + IFD_ENTRY_LENGTH * Len(desc.entries) + Len(IFD_END)
SubOffset(desc) == AreaOffset(desc) + Len(StringArea)
DirLength == 2 + IFD_ENTRY_LENGTH + Len(IFD_END)
ChainOffset(desc) == SubOffset(desc) + DirLength
EndOffset(desc) == ChainOffset(desc) + 3 * DirLength
Target(desc, at) ==
    CASE at = "area" -> AreaOffset(desc)
      [] at = "sub" -> SubOffset(desc)
      [] at = "chain" -> ChainOffset(desc)
      [] at = "chain2" -> ChainOffset(desc) + DirLength
      [] at = "chain3" -> ChainOffset(desc) + 2 * DirLength
      [] at = "self" -> 8
      [] at = "start" -> 8
      [] at = "end" -> EndOffset(desc)

EntryBytes(desc, e) ==
    LET inline == ValueBytes(e.comps, IF ValidFormat(e.fmt) THEN e.fmt ELSE INT32U,
                             desc.big)
    IN  U16Bytes(e.id, desc.big) \o U16Bytes(e.fmt, desc.big)
        \o U32Bytes(e.count, desc.big)
        \o (IF e.at = "inline" THEN inline \o [k \in 1..(4 - Len(inline)) |-> 0]
            ELSE U32Bytes(Target(desc, e.at), desc.big))

BuildWire(desc) ==
    LET tiff ==
            SubSeq(EndianHeader(desc.big), 1, 4)
            \o U32Bytes(Target(desc, desc.ifd0), desc.big)
            \o U16Bytes(desc.declared, desc.big)
            \o Flatten([i \in 1..Len(desc.entries) |-> EntryBytes(desc, desc.entries[i])])
            \o IFD_END
            \o StringArea
            \o U16Bytes(1, desc.big) \o EntryBytes(desc, IsoEntry) \o IFD_END
            \o Flatten([k \in 1..3 |->
                   U16Bytes(1, desc.big)
                   \o EntryBytes(desc, WireEntry(ExifOffset, INT32U, 1,
                                                 <<"chain2", "chain3", "sub">>[k], <<>>))
                   \o IFD_END])
    IN  CASE desc.head = "ok" -> EXIF_HEADER \o tiff
          [] desc.head = "bad_preamble" -> <<69, 120, 105, 102, 0, 1>> \o tiff
          [] desc.head = "bad_endian" -> EXIF_HEADER \o <<73, 77>> \o SubSeq(tiff, 3, Len(tiff))
          [] desc.head = "short" -> SubSeq(EXIF_HEADER \o tiff, 1, 19)
          [] desc.head = "shortest" -> SubSeq(EXIF_HEADER \o tiff, 1, 20)

DecodeInit ==
    /\ JpgIdle
    /\ EcsIdle
    /\ overflow_checks = FALSE
    /\ data = <<>>
    /\ endian = "Little"
    /\ set_hist = <<>>
    /\ got = NoGet
    /\ meta_pc = "wire"
    /\ payload = <<>>
    /\ wire_desc \in WireDescs
    /\ wire = BuildWire(wire_desc)
    /\ decoded = NoDecoded

\* a constructor of Metadata, from general_decoding_wrapper on
DecodeWire ==
    /\ meta_pc = "wire"
    /\ decoded' = decode_metadata_general(wire)
    /\ LET m == general_decoding_wrapper([status |-> "ok", out |-> wire])
       IN  data' = m.data /\ endian' = m.endian
    /\ meta_pc' = "decoded"
    /\ UNCHANGED <<set_hist, got, payload, wire, wire_desc, jpg_vars, overflow_checks,
                   ecs_vars>>

DecodeNext == DecodeWire

SpecDecode == DecodeInit /\ [][DecodeNext]_vars

(***************************************************************************)
(* Properties of decoding a stream that comes from a file.                 *)
(***************************************************************************)
\* the stream has a sound head, entry count and IFD0 offset
SoundStream(desc) ==
    desc.head = "ok" /\ desc.declared = Len(desc.entries) /\ desc.ifd0 = "start"

IsOffsetEntry(e) == e.id \in KnownIds /\ TagInfo(e.id).sub # "none"
\* a known tag whose on-wire format is not its canonical format
Mismatch(e) == e.id \in KnownIds /\ ValidFormat(e.fmt) /\ TagInfo(e.id).fmt # e.fmt
Widening(e) == Mismatch(e) /\ TagInfo(e.id).fmt = INT32U /\ e.fmt = INT16U

\* decode_ifd gets past the entry: its value lies inside the data, its format
\* code is legal, and its format is the canonical one or is widened
Passing(e) ==
    /\ e.at \in {"inline", "area", "sub"}
    /\ ValidFormat(e.fmt)
    /\ IsOffsetEntry(e) \/ ~Mismatch(e) \/ Widening(e)
PassingBefore(desc, i) == \A j \in 1..(i - 1) : Passing(desc.entries[j])

\* the tags a passing entry stands for
EntryTags(e) ==
    IF IsOffsetEntry(e) THEN <<KnownTag(IsoEntry.id, IsoEntry.comps)>>
    ELSE IF e.at = "area" THEN <<KnownTag(e.id, SubSeq(StringArea, 1, 5))>>
    ELSE IF e.id \in KnownIds THEN <<KnownTag(e.id, e.comps)>>
    ELSE <<UnknownTag(e.id, e.fmt, "IFD0", e.comps)>>

\* what C8 says of entry i of the stream, once decode_ifd gets to it
CoercionRule(desc, i) ==
    LET e == desc.entries[i]
    IN  IF Widening(e)
        THEN (\A j \in 1..Len(desc.entries) : Passing(desc.entries[j])) =>
                /\ decoded.status = "ok"
                /\ decoded.tags
                     = Flatten([j \in 1..Len(desc.entries) |-> EntryTags(desc.entries[j])])
                /\ \E k \in 1..Len(decoded.tags) :
                      /\ as_u16(decoded.tags[k]) = e.id
                      /\ tag_format(decoded.tags[k]) = INT32U
                      /\ decoded.tags[k].value = e.comps
        ELSE /\ decoded.status = "err_ifd0"
             /\ decoded.cause = "err_incompatible"
             /\ decoded.tags = <<>>
             /\ data = <<>>

\* C8 (as stated): an entry of a known tag with canonical format INT32U and
\* on-wire format INT16U decodes to that tag with its components' values
\* kept; every other mismatch of a known tag's on-wire format with its
\* canonical format makes decode return an error and no tag list
C8_EveryMismatch ==
    (meta_pc = "decoded" /\ SoundStream(wire_desc)) =>
        \A i \in 1..Len(wire_desc.entries) :
            (Mismatch(wire_desc.entries[i]) /\ PassingBefore(wire_desc, i)
             /\ wire_desc.entries[i].at \in {"inline", "area", "sub"})
                => CoercionRule(wire_desc, i)

\* C8 (amended): the same for the known tags that are no SubIFD offset tags;
\* the entry of an offset tag is followed as a pointer whatever its format
C8_FormatCoercion ==
    (meta_pc = "decoded" /\ SoundStream(wire_desc)) =>
        \A i \in 1..Len(wire_desc.entries) :
            (Mismatch(wire_desc.entries[i]) /\ ~IsOffsetEntry(wire_desc.entries[i])
             /\ PassingBefore(wire_desc, i)
             /\ wire_desc.entries[i].at \in {"inline", "area", "sub"})
                => CoercionRule(wire_desc, i)

\* C8 witness: an ImageWidth entry with two INT16U components after an ISO
\* entry, big endian, decoded to ISO and ImageWidth = (300, 7) as INT32U
C8_Witness ==
    /\ meta_pc = "decoded"
    /\ wire_desc = WireDesc(TRUE,
                            <<IsoEntry,
                              WireEntry(ImageWidth, INT16U, 2, "inline", <<300, 7>>)>>,
                            2, "start", "ok")
    /\ decoded.status = "ok"
    /\ decoded.tags = <<KnownTag(ISO, <<1234>>), KnownTag(ImageWidth, <<300, 7>>)>>
    /\ data = decoded.tags

\* C9: read, write, decode and encode end by returning a value or an error,
\* whatever the input; clear aborts only on an APP1 whose length leaves no
\* bytes to skip and on a buffer that ends inside an APP1; decode_ifd with
\* an IFD start, entry count or value offset past the end of the data
\* returns an empty list or an error
C9_NoAbort ==
    /\ meta_pc = "decoded" => ~Dead(decoded.status)
    /\ \A i \in 1..Len(jpg_hist) :
          IF jpg_hist[i].op = "clear"
          THEN IsPanic(jpg_hist[i].status) =>
                  jpg_hist[i].status \in {"panic_unreachable", "panic_skip"}
          ELSE ~Dead(jpg_hist[i].status)

\* C11: after any sequence of set_tag calls the tag list is sorted by group
\* (IFD0 < ExifIFD < GPSIFD < InteropIFD), and inside one group every known
\* tag comes before every unknown tag
C11_SortedOrder ==
    \A i, j \in 1..Len(data) :
        i < j =>
            /\ GroupRank(get_group(data[i])) <= GroupRank(get_group(data[j]))
            /\ get_group(data[i]) = get_group(data[j]) =>
                  ~(is_unknown(data[i]) /\ ~is_unknown(data[j]))

\* C11 witness: an InteropIFD tag, then an unknown IFD0 tag, then a known
\* IFD0 tag were set, and the list holds them in the opposite order
C11_Witness ==
    /\ Len(set_hist) = 3
    /\ get_group(set_hist[1]) = "InteropIFD"
    /\ get_group(set_hist[2]) = "IFD0" /\ is_unknown(set_hist[2])
    /\ get_group(set_hist[3]) = "IFD0" /\ ~is_unknown(set_hist[3])
    /\ data = <<set_hist[3], set_hist[2], set_hist[1]>>

(***************************************************************************)
(* Metadata::new_from_vec(file_buffer, JPEG): jpg::read_metadata, then     *)
(* general_decoding_wrapper.  The result is [status, endian, data].        *)
(***************************************************************************)
new_from_vec(buf, checks) == general_decoding_wrapper(read_metadata(buf, checks))

(***************************************************************************)
(* Constructing a Metadata from a file.  The file is a stream as above in  *)
(* the APP1 segment of a JPEG file, first or after another segment, or a   *)
(* file without such a segment.                                            *)
(***************************************************************************)
DqtSegment == Segment(219, <<17>>)

Containers(stream) ==
    { JPG_SIGNATURE \o Segment(225, stream) \o EOI,
      JPG_SIGNATURE \o DqtSegment \o Segment(225, stream) \o EOI,
      JPG_SIGNATURE \o DqtSegment \o EOI,
      JPG_SIGNATURE \o <<255, 225>> \o U16Bytes(Len(stream) + 3, TRUE) \o stream,
      <<137, 80, 78, 71>> \o stream }

NewInit ==
    /\ EcsIdle
    /\ overflow_checks \in BOOLEAN
    /\ wire_desc \in WireDescs
    /\ file_buffer \in Containers(BuildWire(wire_desc))
    /\ jpg_input = file_buffer
    /\ jpg_before = file_buffer
    /\ jpg_hist = <<>>
    /\ jpg_status = "none"
    /\ jpg_out = <<>>
    /\ jpg_arg = <<>>
    /\ data = <<>>
    /\ endian = "Little"
    /\ set_hist = <<>>
    /\ got = NoGet
    /\ meta_pc = "file"
    /\ payload = <<>>
    /\ wire = <<>>
    /\ decoded = NoDecoded

\* meta_pc tells how the constructor ended: "constructed" for Ok(Metadata),
\* "failed" for Err, "aborted" for a call that does not return
NewFromVec ==
    /\ meta_pc = "file"
    /\ LET raw == read_metadata(file_buffer, overflow_checks)
           m == new_from_vec(file_buffer, overflow_checks)
       IN  /\ jpg_status' = raw.status
           /\ jpg_out' = raw.out
           /\ jpg_hist' = Append(jpg_hist, [op |-> "read", status |-> raw.status])
           /\ wire' = raw.out
           /\ decoded' = IF raw.status = "ok" THEN decode_metadata_general(raw.out)
                         ELSE NoDecoded
           /\ data' = m.data
           /\ endian' = m.endian
           /\ meta_pc' = IF m.status = "ok" THEN "constructed"
                         ELSE IF Dead(m.status) THEN "aborted"
                         ELSE "failed"
    /\ UNCHANGED <<file_buffer, jpg_input, jpg_before, jpg_arg, overflow_checks,
                   ecs_vars, set_hist, got, payload, wire_desc>>

NewNext == NewFromVec

SpecNew == NewInit /\ [][NewNext]_vars

ConstructorEnded == meta_pc \in {"constructed", "failed", "aborted"}

\* C12: when the container read returns an error, or the read succeeds and
\* the decode of what it read returns an error, new_from_vec returns Ok with
\* an empty Metadata (no tags, Little endian); when both succeed it returns
\* Ok with the decoded endianness and tag list
C12_BestEffort ==
    ConstructorEnded =>
        LET r == read_metadata(jpg_input, overflow_checks)
            d == decode_metadata_general(r.out)
            read_failed == r.status # "ok" /\ ~Dead(r.status)
            decode_failed == r.status = "ok" /\ d.status # "ok" /\ ~Dead(d.status)
            both_ok == r.status = "ok" /\ d.status = "ok"
        IN  /\ (read_failed \/ decode_failed) =>
                  meta_pc = "constructed" /\ data = <<>> /\ endian = "Little"
            /\ both_ok =>
                  meta_pc = "constructed" /\ data = d.tags /\ endian = d.endian

\* C12 witness: a file whose APP1 segment holds a big-endian stream with an
\* entry of a wrong format: the read succeeds, the decode returns an error,
\* the constructor returns an empty Little-endian Metadata
C12_Witness ==
    /\ meta_pc = "constructed"
    /\ wire_desc.big /\ SoundStream(wire_desc)
    /\ jpg_status = "ok"
    /\ wire = BuildWire(wire_desc)
    /\ decoded.status = "err_ifd0" /\ decoded.cause = "err_incompatible"
    /\ data = <<>> /\ endian = "Little"

(***************************************************************************)
(* The scan of a buffer as the JPEG format defines it, from offset pos:    *)
(* segments are walked by their declared length, the data of a scan is     *)
(* walked up to the first 0xFF that is followed by neither 0x00 nor a      *)
(* restart marker.  The result is "eoi" or "app1", whichever marker comes  *)
(* first, or "malformed".                                                  *)
(***************************************************************************)
RECURSIVE FormatScan(_, _)
FormatScan(buf, pos) ==
    IF pos + 2 > Len(buf) \/ buf[pos + 1] # 255 THEN "malformed"
    ELSE IF buf[pos + 2] = 217 THEN "eoi"
    ELSE IF buf[pos + 2] = 225 THEN "app1"
    ELSE IF pos + 4 > Len(buf) THEN "malformed"
    ELSE LET length == U16From(Slice(buf, pos + 2, pos + 4), TRUE)
             to     == pos + 2 + length
             m      == EcsRealMarkers(Slice(buf, to, Len(buf)))
         IN  IF length < 2 \/ to > Len(buf) THEN "malformed"
             ELSE IF buf[pos + 2] # 218 THEN FormatScan(buf, to)
             ELSE IF m = {} THEN "malformed"
             ELSE FormatScan(buf, to + CHOOSE q \in m : \A q2 \in m : q <= q2)

\* C13: on a buffer with a valid signature whose scan reaches EOI before
\* any APP1 marker, read fails with the not-found error and returns no
\* payload; FF E1 and FF D9 inside another segment's payload are no markers
C13_ReadWithoutExif ==
    (OpsAre(<<"read">>) /\ HasSignature(jpg_input) /\ FormatScan(jpg_input, 2) = "eoi")
        => jpg_status = "not_found" /\ jpg_out = <<>>

\* C14: decode returns an error and no tags when the payload is shorter
\* than preamble + endian header + entry count + terminator (20 bytes), or
\* does not begin with the EXIF preamble, or bytes 6-7 are neither "II" nor
\* "MM"; a decode that returns tags returns Little for "II", Big for "MM"
C14_HeaderValidation ==
    meta_pc = "decoded" =>
        LET short == Len(wire) < 6 + 8 + 2 + 4
            preamble_differs == ~short /\ Slice(wire, 0, 6) # <<69, 120, 105, 102, 0, 0>>
            byte_order == IF short THEN <<>> ELSE Slice(wire, 6, 8)
            no_byte_order == ~short /\ byte_order \notin {<<73, 73>>, <<77, 77>>}
        IN  /\ short => decoded.status = "err_short"
            /\ (preamble_differs \/ no_byte_order) =>
                  decoded.status \in {"err_header", "err_endian"}
            /\ (short \/ preamble_differs \/ no_byte_order) =>
                  decoded.tags = <<>> /\ data = <<>>
            /\ ~(short \/ preamble_differs \/ no_byte_order) =>
                  /\ decoded.status \notin {"err_short", "err_header", "err_endian"}
                  /\ decoded.status = "ok" =>
                        decoded.endian = IF byte_order = <<73, 73>> THEN "Little" ELSE "Big"

\* C14 witness: a stream of 20 bytes or more with the preamble and the byte
\* order "IM" was decoded, with the error for an illegal byte order
C14_Witness ==
    /\ meta_pc = "decoded"
    /\ wire_desc.head = "bad_endian"
    /\ Len(wire) >= 20
    /\ Slice(wire, 0, 8) = <<69, 120, 105, 102, 0, 0, 73, 77>>
    /\ decoded.status = "err_endian"
    /\ decoded.tags = <<>>

\* C15: on a buffer that does not begin with FF D8, read, clear and write
\* each return the invalid-signature error, read returns no payload, and
\* clear and write leave the buffer as it was
C15_SignatureFirst ==
    (Len(jpg_hist) = 1 /\ ~HasSignature(jpg_input)) =>
        /\ jpg_status = "invalid_signature"
        /\ file_buffer = jpg_input
        /\ jpg_out = <<>>

\* C16: on a buffer with a valid signature clear finishes, by returning or
\* by failing; on a well-formed buffer that ends with EOI, also one where
\* an APP1 segment is directly followed by EOI, clear returns
C16_ClearTerminates ==
    (OpsAre(<<"clear">>) /\ HasSignature(jpg_input)) =>
        /\ jpg_status # "diverge"
        /\ WellFormed(jpg_input) => jpg_status = "ok"

\* C17: the buffer after a write(B, P) that returned is C[0..2], FF E1, the
\* length as big-endian u16, the EXIF preamble, P, C[2..], where C is the
\* buffer clear(B) produces: the new segment starts at offset 2 and the
\* bytes of C after the signature follow it unchanged
C17_WriteLayout ==
    (jpg_hist # <<>> /\ jpg_hist[Len(jpg_hist)].op = "write" /\ jpg_status = "ok") =>
        LET C == clear_metadata(jpg_before, overflow_checks).buf
            segment == <<255, 225>> \o U16Bytes((2 + 6 + Len(jpg_arg)) % 65536, TRUE)
                       \o <<69, 120, 105, 102, 0, 0>> \o jpg_arg
        IN  /\ file_buffer = Slice(C, 0, 2) \o segment \o Slice(C, 2, Len(C))
            /\ Slice(file_buffer, 2, 2 + Len(segment)) = segment
            /\ \A i \in 3..Len(C) : file_buffer[i + Len(segment)] = C[i]

\* C17 witness: a write of the payload 2A on FF D8, an APP1 segment, a DQT
\* segment, EOI: the old APP1 segment is gone and the new one sits at
\* offset 2, in front of the DQT segment
C17_Witness ==
    /\ OpsAre(<<"write">>)
    /\ jpg_status = "ok"
    /\ jpg_input = JPG_SIGNATURE \o Segment(225, <<17>>) \o Segment(219, <<17>>) \o EOI
    /\ jpg_arg = <<42>>
    /\ file_buffer = JPG_SIGNATURE \o <<255, 225, 0, 9, 69, 120, 105, 102, 0, 0, 42>>
                     \o Segment(219, <<17>>) \o EOI

(***************************************************************************)
(* Writing payloads of any length: short ones of every length up to        *)
(* MaxShortLen, and long ones around the largest length a segment can      *)
(* declare.  The bytes of the payload do not matter to the length field;   *)
(* they are all 0x2A.                                                      *)
(***************************************************************************)
MaxShortLen == 40     \* length of the short payloads

LongLens == {65527, 65528, 65529, 65535, 65536, 65537}
PayloadOfLen(n) == [i \in 1..n |-> 42]
LenPayloads == {PayloadOfLen(n) : n \in (0..MaxShortLen) \cup LongLens}

WriteLenInit ==
    /\ EcsIdle
    /\ MetaIdle
    /\ overflow_checks \in BOOLEAN
    /\ file_buffer \in {JPG_SIGNATURE \o EOI, JPG_SIGNATURE \o DqtSegment \o EOI}
    /\ jpg_input = file_buffer
    /\ jpg_before = file_buffer
    /\ jpg_hist = <<>>
    /\ jpg_status = "none"
    /\ jpg_out = <<>>
    /\ jpg_arg = <<>>

\* write_metadata, once, with a payload of one of the lengths
WriteLen ==
    /\ jpg_hist = <<>>
    /\ \E p \in LenPayloads :
         LET r == write_metadata(file_buffer, p, overflow_checks)
         IN  /\ file_buffer' = r.buf
             /\ jpg_status' = r.status
             /\ jpg_arg' = p
    /\ jpg_before' = file_buffer
    /\ jpg_hist' = Append(jpg_hist, [op |-> "write", status |-> jpg_status'])
    /\ jpg_out' = <<>>
    /\ UNCHANGED <<jpg_input, overflow_checks, ecs_vars, meta_vars>>

WriteLenNext == WriteLen

SpecWriteLen == WriteLenInit /\ [][WriteLenNext]_vars

\* C18: for every payload P the segment is written and its 16-bit length
\* field holds 2 + 6 + len(P), the number of bytes of the segment after the
\* marker
C18_LengthField ==
    OpsAre(<<"write">>) =>
        /\ jpg_status = "ok"
        /\ U16From(Slice(file_buffer, 4, 6), TRUE) = 2 + 6 + Len(jpg_arg)
        /\ U16From(Slice(file_buffer, 4, 6), TRUE)
             = Len(file_buffer) - Len(jpg_input) + 2 - 4

\* C19: decode_ifd's calls nest at most 3 deep (IFD0, ExifIFD,
\* InteropIFD/GPSIFD) and decode terminates for every payload, also when a
\* SubIFD pointer holds the offset of a directory that is being decoded
C19_BoundedRecursion ==
    meta_pc = "decoded" =>
        /\ decoded.status # "stack_overflow"
        /\ decoded.depth <= 3

\* the directory block at start: where it ends (the directory and the values
\* its entries keep behind it), the offset/value field of its entry for the
\* tag id (-1 without such an entry), and whether a directory with all its
\* entries and its terminator lies at start
DirCount(p, start, big) == U16From(Slice(p, start, start + 2), big)
DirPresent(p, start, big) ==
    /\ start + 2 <= Len(p)
    /\ DirCount(p, start, big) >= 1
    /\ start + 2 + IFD_ENTRY_LENGTH * DirCount(p, start, big) + Len(IFD_END) <= Len(p)
RECURSIVE AreaBytes(_, _, _, _)
AreaBytes(p, start, big, i) ==
    IF i >= DirCount(p, start, big) THEN 0
    ELSE LET at == start + 2 + i * IFD_ENTRY_LENGTH
             bytes == bytes_per_component(U16From(Slice(p, at + 2, at + 4), big))
                      * U32From(Slice(p, at + 4, at + 8), big)
         IN  (IF bytes > 4 THEN bytes ELSE 0) + AreaBytes(p, start, big, i + 1)
BlockEnd(p, start, big) ==
    start + 2 + IFD_ENTRY_LENGTH * DirCount(p, start, big) + Len(IFD_END)
    + AreaBytes(p, start, big, 0)
PointerOf(p, start, big, id) ==
    LET hits == {i \in 0..(DirCount(p, start, big) - 1) :
                    U16From(Slice(p, start + 2 + i * IFD_ENTRY_LENGTH,
                                  start + 4 + i * IFD_ENTRY_LENGTH), big) = id}
        at == start + 2 + (CHOOSE i \in hits : TRUE) * IFD_ENTRY_LENGTH
    IN  IF hits = {} THEN -1 ELSE U32From(Slice(p, at + 8, at + 12), big)

\* C20: in every encoded payload IFD0 begins at 8, the ExifOffset entry of
\* IFD0 holds the position where the ExifIFD block begins, right behind the
\* IFD0 block, the InteropOffset entry of the ExifIFD holds the position
\* right behind the ExifIFD block, and a directory is present at both
C20_PointerChain ==
    meta_pc \in {"encoded", "decoded"} =>
        LET big == IsBig(endian)
            exif_at == BlockEnd(payload, 8, big)
            interop_at == BlockEnd(payload, exif_at, big)
        IN  /\ DirPresent(payload, 8, big)
            /\ PointerOf(payload, 8, big, ExifOffset) = exif_at
            /\ DirPresent(payload, exif_at, big)
            /\ PointerOf(payload, exif_at, big, InteropOffset) = interop_at
            /\ DirPresent(payload, interop_at, big)


\* the groups encode_metadata_general writes, in its order, the ones of them
\* with a writable tag in the list, and the directory blocks that lie one
\* behind the other in a payload from offset 8 on
WrittenGroups == <<"IFD0", "ExifIFD", "InteropIFD">>
GroupIds(tags, g) ==
    {as_u16(tags[i]) : i \in {j \in 1..Len(tags) :
                                 is_writable(tags[j]) /\ get_group(tags[j]) = g}}
GroupHasTag(g) == GroupIds(data, g) # {}
PresentGroups == SelectSeq(WrittenGroups, GroupHasTag)
RECURSIVE BlockStarts(_, _, _, _)
BlockStarts(p, start, big, fuel) ==
    IF fuel = 0 \/ ~DirPresent(p, start, big) THEN <<>>
    ELSE <<start>> \o BlockStarts(p, BlockEnd(p, start, big), big, fuel - 1)
EntryIds(p, start, big) ==
    {U16From(Slice(p, start + 2 + i * IFD_ENTRY_LENGTH,
                   start + 4 + i * IFD_ENTRY_LENGTH), big) :
        i \in 0..(DirCount(p, start, big) - 1)}
PayloadEnd(p, big, starts) ==
    IF starts = <<>> THEN 8 ELSE BlockEnd(p, starts[Len(starts)], big)

\* C21: every encoded payload is the 8-byte header of its endianness and then
\* one directory block for each of IFD0, ExifIFD, InteropIFD that has a
\* writable tag in the Metadata, in that order, holding the tags of that
\* group, and nothing else: a group without a writable tag has no block, and
\* the empty Metadata encodes to the header alone
C21_AbsentGroupsOmitted ==
    meta_pc \in {"encoded", "decoded"} =>
        LET big == IsBig(endian)
            starts == BlockStarts(payload, 8, big, Len(WrittenGroups) + 1)
        IN  /\ Slice(payload, 0, 8) = EndianHeader(big)
            /\ Len(starts) = Len(PresentGroups)
            /\ PayloadEnd(payload, big, starts) = Len(payload)
            /\ \A i \in 1..Len(starts) :
                  /\ GroupIds(data, PresentGroups[i]) \subseteq EntryIds(payload, starts[i], big)
                  /\ EntryIds(payload, starts[i], big) \subseteq
                        GroupIds(data, PresentGroups[i]) \cup {ExifOffset, InteropOffset}
            /\ (data = <<>> => payload = EndianHeader(big))


\* the segments of buf are followed by a SOS segment
HasSos(buf) ==
    LET w == SegWalk(buf, 2)
    IN  w.stop + 2 <= Len(buf) /\ Slice(buf, w.stop, w.stop + 2) = <<255, 218>>

\* C22: on a well-formed buffer with one or more APP1 segments, a SOS
\* segment and EOI, once clear has returned successfully read fails with the
\* not-found error and returns nothing, and no APP1 segment is left in the
\* segments of the buffer
C22_ClearThenRead ==
    (OpsAre(<<"clear", "read">>) /\ WellFormed(jpg_input) /\ HasSos(jpg_input)
        /\ App1Count(jpg_input) >= 1 /\ jpg_hist[1].status = "ok")
    => /\ jpg_status = "not_found"
       /\ jpg_out = <<>>
       /\ App1Count(file_buffer) = 0

====
